---------------------------- MODULE Spec2Model ----------------------------
(***************************************************************************)
(* Allusion: the browser clipper's background script (request bridge,     *)
(* tag-prompt parser) modelled as state machines.                          *)
(*                                                                         *)
(* JavaScript strings are sequences of one-character strings, so that      *)
(* split / replace / trim / toLowerCase are computed as the code computes  *)
(* them.  The value `undefined` is the model value Undefined.              *)
(***************************************************************************)
EXTENDS Integers, Sequences, FiniteSets, TLC

VARIABLES
    \* --- tag-prompt parser (one 'send-allusion-image' payload) ---
    promptIn,       \* message.payload.prompt
    nTokens,        \* how many tokens of the prompt the page has produced
    tagsFetched,    \* names returned by GET /tags
    tagsOut,        \* promptTags handed to importImage
    parsed,         \* whether the listener has parsed the prompt
    \* --- request bridge ---
    storage,        \* chrome.storage.local 'lastSubmittedItem'
    badge,          \* browserAction badge background colour
    errCount,       \* let errCount
    notifications,  \* ids of the notifications created so far
    calls,          \* the invocations of importImage, in invocation order
    msgs,           \* the invocations of handleMessage
    clicks,         \* the invocations of the notifications.onClicked listener
    exts,           \* the invocations of the onMessageExternal listener
    events,         \* number of browser events delivered so far
    \* --- filename derivation (one image handed to importImage) ---
    srcUrlIn,       \* srcUrl of filenameFromUrl
    nUrlTokens,     \* how many tokens of the url the page has produced
    fallbackIn,     \* fallback of filenameFromUrl
    namePc,         \* "url", then "named" (filenameFromUrl returned), then "final"
    filenameOut,    \* what filenameFromUrl returned
    blobTypeIn,     \* blob.type of the fetched image
    finalOut,       \* filenameWithExtension of importImage
    \* --- main process of the desktop application ---
    appState,       \* "starting" (before app 'ready'), "running", "quit"
    isMac,          \* process.platform === 'darwin'
    mainWindow,     \* let mainWindow: the id of a window, 0 for null
    windows,        \* ids of the main windows created and not yet closed
    nWindows,       \* number of main windows created so far
    previewWindow,  \* let previewWindow: "null", "alive" or "destroyed"
    tray,           \* let tray: "null" or "alive"
    clipServer,     \* let clipServer: FALSE for null
    runInBackground,\* the clip server's run-in-background preference
    importQueue,    \* the clip server's import queue
    delivered,      \* items sent to a main window by importExternalImage
    nItems,         \* number of items the clip server has received
    drains,         \* the onceInitialized handlers registered by createWindow
    hasCheckedForUpdateOnStartup,
    checks          \* the update checks made, in order

parserVars == <<promptIn, nTokens, tagsFetched, tagsOut, parsed>>
bridgeVars == <<storage, badge, errCount, notifications, calls, msgs, clicks, exts, events>>
nameVars == <<srcUrlIn, nUrlTokens, fallbackIn, namePc, filenameOut, blobTypeIn, finalOut>>
mainVars == <<appState, isMac, mainWindow, windows, nWindows, previewWindow, tray,
              clipServer, runInBackground, importQueue, delivered, nItems, drains,
              hasCheckedForUpdateOnStartup, checks>>
otherVars == <<nameVars, mainVars>>
vars == <<parserVars, bridgeVars, otherVars>>

\* `undefined` / `null` where a string or an array is expected: a sequence that
\* is no string of the model (its one element is not a character)
Undefined == <<"undefined">>

\* values whose JavaScript type varies, tagged with their typeof
JsUndefined == [type |-> "undefined"]
JsBoolean(b) == [type |-> "boolean", value |-> b]
JsNumber(n) == [type |-> "number", value |-> n]
JsObject(o) == [type |-> "object", value |-> o]

\* objects are records; obj.field of an absent field is undefined
HasField(obj, field) == field \in DOMAIN obj
GetField(obj, field) == IF HasField(obj, field) THEN obj[field] ELSE Undefined
\* obj.field = v
SetField(obj, field, v) ==
    [f \in DOMAIN obj \cup {field} |-> IF f = field THEN v ELSE obj[f]]

(***************************************************************************)
(* Bounds of the model.                                                    *)
(***************************************************************************)
\* number of tokens appended to a seed prompt
MaxTokens == 3
\* number of browser events (context-menu clicks, messages, notification
\* clicks) handled in one behaviour of the request bridge
MaxEvents == 3
\* number of importImage invocations in one behaviour of the request bridge
MaxCalls == 2

(***************************************************************************)
(* String primitives (methods of String.prototype) on character sequences.  *)
(***************************************************************************)
Min(S) == CHOOSE x \in S : \A y \in S : x <= y

\* s.startsWith(p, i-1): p occurs in s at (1-based) position i
IsPrefixAt(s, p, i) ==
    /\ i >= 1
    /\ i + Len(p) - 1 <= Len(s)
    /\ SubSeq(s, i, i + Len(p) - 1) = p

StartsWith(s, p) == IsPrefixAt(s, p, 1)

EndsWith(s, p) == Len(p) <= Len(s) /\ IsPrefixAt(s, p, Len(s) - Len(p) + 1)

\* s.indexOf(p, i-1) + 1: first position >= i where p occurs, 0 when none
IndexOfFrom(s, p, i) ==
    LET hits == {k \in i..(Len(s) - Len(p) + 1) : IsPrefixAt(s, p, k)}
    IN  IF hits = {} THEN 0 ELSE Min(hits)

IndexOf(s, p) == IndexOfFrom(s, p, 1)

\* s.slice(i-1): the suffix of s from position i
From(s, i) == SubSeq(s, i, Len(s))

\* s.split(sep) for a non-empty separator string
RECURSIVE SplitStr(_, _)
SplitStr(s, sep) ==
    LET k == IndexOf(s, sep)
    IN  IF k = 0 THEN <<s>>
        ELSE <<SubSeq(s, 1, k - 1)>> \o SplitStr(From(s, k + Len(sep)), sep)

\* arr.join(sep)
RECURSIVE JoinStr(_, _)
JoinStr(arr, sep) ==
    IF Len(arr) = 0 THEN <<>>
    ELSE IF Len(arr) = 1 THEN arr[1]
    ELSE arr[1] \o sep \o JoinStr(Tail(arr), sep)

\* s.replace(pat, rep) with a string pattern: the first occurrence only
ReplaceFirst(s, pat, rep) ==
    LET k == IndexOf(s, pat)
    IN  IF k = 0 THEN s
        ELSE SubSeq(s, 1, k - 1) \o rep \o From(s, k + Len(pat))

\* s.replace(/pat/g, rep) for a literal pattern: every occurrence, left to right
RECURSIVE ReplaceAll(_, _, _)
ReplaceAll(s, pat, rep) ==
    LET k == IndexOf(s, pat)
    IN  IF k = 0 THEN s
        ELSE SubSeq(s, 1, k - 1) \o rep \o ReplaceAll(From(s, k + Len(pat)), pat, rep)

\* s.replace(/[...]/g, ''): drop every character of the class
RemoveChars(s, class) ==
    LET kept(c) == c \notin class
    IN  SelectSeq(s, kept)

\* the characters String.prototype.trim removes (those the model's alphabet has)
WhiteSpace == {" ", "\t", "\n", "\r"}

TrimStart(s) ==
    LET inner == {i \in 1..Len(s) : s[i] \notin WhiteSpace}
    IN  IF inner = {} THEN <<>> ELSE From(s, Min(inner))

TrimEnd(s) ==
    LET inner == {i \in 1..Len(s) : s[i] \notin WhiteSpace}
    IN  IF inner = {} THEN <<>>
        ELSE SubSeq(s, 1, CHOOSE i \in inner : \A j \in inner : j <= i)

Trim(s) == TrimEnd(TrimStart(s))

\* the upper-case letters of the model's alphabet and their lower-case forms
LowerOf == [c \in {"A", "B", "C", "E"} |->
              CASE c = "A" -> "a" [] c = "B" -> "b" [] c = "C" -> "c" [] c = "E" -> "e"]

ToLowerCase(s) ==
    [i \in 1..Len(s) |-> IF s[i] \in DOMAIN LowerOf THEN LowerOf[s[i]] ELSE s[i]]

\* arr.filter(Boolean) on an array of strings: drops the empty strings
FilterNonEmpty(arr) ==
    LET nonEmpty(x) == x # <<>>
    IN  SelectSeq(arr, nonEmpty)

\* arr.flat(): concatenation of an array of arrays
RECURSIVE Flatten(_)
Flatten(arrs) ==
    IF arrs = <<>> THEN <<>> ELSE Head(arrs) \o Flatten(Tail(arrs))

(***************************************************************************)
(* The tag-prompt parser of the onMessageExternal listener.                *)
(***************************************************************************)
Marker == <<"#", "!", "a", "l", "l", "u", "s", "i", "o", "n", " ">>
TEMP_OPEN_PAREN ==
    <<"T", "E", "M", "P", "_", "O", "P", "E", "N", "_", "P", "A", "R", "E", "N">>
TEMP_CLOSE_PAREN ==
    <<"T", "E", "M", "P", "_", "C", "L", "O", "S", "E", "_", "P", "A", "R", "E", "N">>
Digits == {"0", "1", "2", "3", "4", "5", "6", "7", "8", "9"}

\* (mutation) only the given ordering is produced
permute_GivenOrder(arr) == <<arr>>

\* permute(arr): every ordering of arr, in the order the loops produce them
RECURSIVE permute(_)
permute(arr) ==
    IF Len(arr) <= 1 THEN <<arr>>
    ELSE Flatten([i \in 1..Len(arr) |->
            LET rest == permute(SubSeq(arr, 1, i - 1) \o SubSeq(arr, i + 1, Len(arr)))
            IN  [j \in 1..Len(rest) |-> <<arr[i]>> \o rest[j]]])

\* .filter(line => !line.trim().startsWith('#') || line.trim().startsWith('#!allusion '))
KeepLine(line) ==
    \/ ~StartsWith(Trim(line), <<"#">>)
    \/ StartsWith(Trim(line), Marker)

FilterLines(lines) == SelectSeq(lines, KeepLine)

\* end (exclusive) of the run of digits that starts at position i
RECURSIVE DigitsEnd(_, _)
DigitsEnd(s, i) ==
    IF i <= Len(s) /\ s[i] \in Digits THEN DigitsEnd(s, i + 1) ELSE i

\* cleanedLine.replace(/:\d+(\.\d+)?/g, '')
RECURSIVE RemoveWeights(_)
RemoveWeights(s) ==
    LET starts == {i \in 1..(Len(s) - 1) : s[i] = ":" /\ s[i + 1] \in Digits}
    IN  IF starts = {} THEN s
        ELSE LET i == Min(starts)
                 j == DigitsEnd(s, i + 1)
                 k == IF j < Len(s) /\ s[j] = "." /\ s[j + 1] \in Digits
                      THEN DigitsEnd(s, j + 1) ELSE j
             IN  SubSeq(s, 1, i - 1) \o RemoveWeights(From(s, k))

\* part.split(/ \(|\)/)
RECURSIVE SplitParens(_)
SplitParens(s) ==
    LET hits == {k \in 1..Len(s) :
                    IsPrefixAt(s, <<" ", "(">>, k) \/ s[k] = ")"}
    IN  IF hits = {} THEN <<s>>
        ELSE LET k == Min(hits)
                 n == IF s[k] = ")" THEN 1 ELSE 2
             IN  <<SubSeq(s, 1, k - 1)>> \o SplitParens(From(s, k + n))

\* (mutation) the unescaped parentheses are not removed
restoredLine_Unstripped(line) ==
    LET protected == ReplaceAll(ReplaceAll(line, <<"\\", "(">>, TEMP_OPEN_PAREN),
                                <<"\\", ")">>, TEMP_CLOSE_PAREN)
    IN  ReplaceAll(ReplaceAll(protected, TEMP_OPEN_PAREN, <<"(">>),
                   TEMP_CLOSE_PAREN, <<")">>)

\* the escaped-parenthesis clean-up of one line: placeholders in, parentheses
\* out, placeholders back to parentheses
restoredLine(line) ==
    LET protected == ReplaceAll(ReplaceAll(line, <<"\\", "(">>, TEMP_OPEN_PAREN),
                                <<"\\", ")">>, TEMP_CLOSE_PAREN)
        stripped  == RemoveChars(protected, {"(", ")"})
    IN  ReplaceAll(ReplaceAll(stripped, TEMP_OPEN_PAREN, <<"(">>),
                   TEMP_CLOSE_PAREN, <<")">>)

\* the escaped-parenthesis and weight clean-up of one line
cleanedLine(line) == RemoveWeights(restoredLine(line))

\* cleanedLine.split(', ').flatMap(part => part.split(/ \(|\)/).filter(Boolean))
parts(cleaned) ==
    LET split == SplitStr(cleaned, <<",", " ">>)
    IN  Flatten([i \in 1..Len(split) |-> FilterNonEmpty(SplitParens(split[i]))])

\* one part expanded into the permutations of its words
processPart(part) ==
    LET words == SplitStr(Trim(part), <<" ">>)
    IN  IF Len(words) > 1
        THEN LET perms == permute(words)
             IN  [j \in 1..Len(perms) |-> JoinStr(perms[j], <<" ">>)]
        ELSE <<part>>

processedParts(ps) == Flatten([i \in 1..Len(ps) |-> processPart(ps[i])])

\* the body of promptLines.map((line) => { ... })
processLine(line) == JoinStr(processedParts(parts(cleanedLine(line))), <<",", " ">>)

\* prompt.split('\n').filter(...).map((line) => line.replace('#!allusion ', ''))
promptLines(prompt) ==
    LET kept == FilterLines(SplitStr(prompt, <<"\n">>))
    IN  [i \in 1..Len(kept) |-> ReplaceFirst(kept[i], Marker, <<>>)]

\* promptLines.map(...).join(', ')
filteredPrompt(prompt) ==
    LET lines == promptLines(prompt)
    IN  JoinStr([i \in 1..Len(lines) |-> processLine(lines[i])], <<",", " ">>)

\* .split(',').map((tagName) => tagName.trim().toLowerCase())
candidates(filtered) ==
    LET split == SplitStr(filtered, <<",">>)
    IN  [i \in 1..Len(split) |-> ToLowerCase(Trim(split[i]))]

\* self.indexOf(value) + 1
FirstIndex(arr, v) == Min({i \in 1..Len(arr) : arr[i] = v})

\* (mutation) the duplicate filter left out
RemoveDuplicates_Kept(arr) == arr

\* .filter((value, index, self) => self.indexOf(value) === index)
RemoveDuplicates(arr) ==
    LET kept   == {i \in 1..Len(arr) : FirstIndex(arr, arr[i]) = i}
        \* the k-th kept index, in increasing order
        nth(k) == CHOOSE i \in kept : Cardinality({j \in kept : j < i}) = k - 1
    IN  [k \in 1..Cardinality(kept) |-> arr[nth(k)]]

\* .filter((tagName) => tagName.length > 0)
RemoveEmpty(arr) == FilterNonEmpty(arr)

\* (mutation) the matched candidate is returned instead of the existing tag
FindExisting_Candidate(existingTags, tagName) ==
    IF \E i \in 1..Len(existingTags) : ToLowerCase(existingTags[i]) = tagName
    THEN tagName ELSE Undefined

\* existingTags.find((tag) => tag.toLowerCase() === tagName), null when none or falsy
FindExisting(existingTags, tagName) ==
    LET hits == {i \in 1..Len(existingTags) : ToLowerCase(existingTags[i]) = tagName}
    IN  IF hits = {} \/ existingTags[Min(hits)] = <<>> THEN Undefined
        ELSE existingTags[Min(hits)]

\* (mutation) the existing tags are filtered by the candidates, in their own order
MatchExisting_ExistingOrder(cands, existingTags) ==
    LET isCandidate(tag) == \E k \in 1..Len(cands) : cands[k] = ToLowerCase(tag)
    IN  SelectSeq(existingTags, isCandidate)

\* .map(find).filter((tagName) => tagName !== null)
MatchExisting(cands, existingTags) ==
    LET found == [i \in 1..Len(cands) |-> FindExisting(existingTags, cands[i])]
        notNull(tagName) == tagName # Undefined
    IN  SelectSeq(found, notNull)

\* the deduplicated, non-empty, lower-cased candidates of a prompt
promptCandidates(prompt) ==
    RemoveEmpty(RemoveDuplicates(candidates(filteredPrompt(prompt))))

\* promptTags as computed for a prompt (undefined and '' are falsy: no tags)
promptTags(prompt, existingTags) ==
    IF prompt = Undefined \/ prompt = <<>> THEN <<>>
    ELSE MatchExisting(promptCandidates(prompt), existingTags)


(***************************************************************************)
(* The request bridge: importImage, handleMessage and the listeners.       *)
(***************************************************************************)
DataImagePrefix == <<"d", "a", "t", "a", ":", "i", "m", "a", "g", "e", "/">>
UndefinedStr == <<"u", "n", "d", "e", "f", "i", "n", "e", "d">>

\* String(v) as template literals and String.prototype arguments coerce v
ToStr(v) == IF v = Undefined THEN UndefinedStr ELSE v

Last(arr) == arr[Len(arr)]

\* filenameFromUrl(srcUrl, fallback)
filenameFromUrl(srcUrl, fallback) ==
    LET filename ==
            SplitStr(SplitStr(Last(SplitStr(srcUrl, <<"/">>)), <<"#">>)[1], <<"?">>)[1]
    IN  IF StartsWith(srcUrl, DataImagePrefix) \/ IndexOf(filename, <<".">>) = 0
        THEN fallback
        ELSE SubSeq(filename, 1, IndexOf(filename, <<".">>) - 1)

\* blob.type.split('/')[1]
extensionOf(blobType) ==
    LET split == SplitStr(blobType, <<"/">>)
    IN  IF Len(split) >= 2 THEN split[2] ELSE Undefined

\* filenameWithExtension of importImage
filenameWithExtension(filename, blobType) ==
    LET extension == extensionOf(blobType)
    IN  IF ~EndsWith(filename, ToStr(extension))
        THEN filename \o <<".">> \o ToStr(extension)
        ELSE filename

\* let lastSubmittedItem = {}
EmptyItem == <<>>

\* chrome.storage.local holds no 'lastSubmittedItem' / holds item
NoItem == <<>>
Stored(item) == <<item>>

\* reader.result: the data URL of the blob fetched from url
imgBase64Of(url, blobType) == <<"data", blobType, url>>

\* the frame of one importImage invocation after its synchronous prefix:
\* lastSubmittedItem = {} and fetch(url) of imageAsBase64 issued
NewCall(filename, url, pageUrl, tagNames) ==
    [pc |-> "fetch", filename |-> filename, url |-> url, pageUrl |-> pageUrl,
     tagNames |-> tagNames, blobType |-> Undefined, item |-> EmptyItem]

CallIds == 1..Len(calls)

\* (mutation) the notification id does not advance
NextErrCount_Stuck(n) == n

\* errCount++ leaves errCount at
NextErrCount(n) == n + 1

\* the catch block of importImage, run by invocation c
CatchImportError(c) ==
    /\ notifications' = notifications \cup {<<"import-error-", errCount>>}
    /\ errCount' = NextErrCount(errCount)
    /\ badge' = "red"
    /\ calls' = [calls EXCEPT ![c].pc = "failed",
                               ![c].item = SetField(calls[c].item, "error", TRUE)]
    /\ storage' = Stored(SetField(calls[c].item, "error", TRUE))

\* imageAsBase64: fetch(url) resolves
ImageFetched(c) ==
    /\ calls[c].pc = "fetch"
    /\ calls' = [calls EXCEPT ![c].pc = "blob"]
    /\ UNCHANGED <<storage, badge, errCount, notifications, msgs, clicks, exts, events>>

\* imageAsBase64: fetch(url) rejects inside the async executor; the promise
\* returned by imageAsBase64 is never settled, importImage stays suspended
ImageFetchRejected(c) ==
    /\ calls[c].pc = "fetch"
    /\ calls' = [calls EXCEPT ![c].pc = "pending"]
    /\ UNCHANGED <<storage, badge, errCount, notifications, msgs, clicks, exts, events>>

\* imageAsBase64: response.blob() resolves, reader.readAsDataURL(blob) starts
BlobRead(c, blobType) ==
    /\ calls[c].pc = "blob"
    /\ calls' = [calls EXCEPT ![c].pc = "read", ![c].blobType = blobType]
    /\ UNCHANGED <<storage, badge, errCount, notifications, msgs, clicks, exts, events>>

\* imageAsBase64: response.blob() rejects inside the async executor
BlobRejected(c) ==
    /\ calls[c].pc = "blob"
    /\ calls' = [calls EXCEPT ![c].pc = "pending"]
    /\ UNCHANGED <<storage, badge, errCount, notifications, msgs, clicks, exts, events>>

\* reader.onload: importImage resumes, builds and stores the item, issues the POST
\* (filename.endsWith throws a TypeError when filename is undefined)
ReaderLoaded(c) ==
    /\ calls[c].pc = "read"
    /\ IF calls[c].filename = Undefined
       THEN /\ CatchImportError(c)
            /\ UNCHANGED <<msgs, clicks, exts, events>>
       ELSE LET item == [filename  |-> filenameWithExtension(calls[c].filename,
                                                             calls[c].blobType),
                         url       |-> calls[c].url,
                         imgBase64 |-> imgBase64Of(calls[c].url, calls[c].blobType),
                         tagNames  |-> calls[c].tagNames,
                         pageUrl   |-> calls[c].pageUrl,
                         error     |-> FALSE]
            IN  /\ calls' = [calls EXCEPT ![c].pc = "post", ![c].item = item]
                /\ storage' = Stored(item)
                /\ UNCHANGED <<badge, errCount, notifications, msgs, clicks, exts, events>>

\* reader.onerror: imageAsBase64 rejects and importImage catches it
ReaderErrored(c) ==
    /\ calls[c].pc = "read"
    /\ CatchImportError(c)
    /\ UNCHANGED <<msgs, clicks, exts, events>>

\* the POST to /import-image resolves: blue badge
ImportPosted(c) ==
    /\ calls[c].pc = "post"
    /\ calls' = [calls EXCEPT ![c].pc = "ok"]
    /\ badge' = "blue"
    /\ UNCHANGED <<storage, errCount, notifications, msgs, clicks, exts, events>>

\* the POST to /import-image rejects
ImportPostRejected(c) ==
    /\ calls[c].pc = "post"
    /\ CatchImportError(c)
    /\ UNCHANGED <<msgs, clicks, exts, events>>

(***************************************************************************)
(* Inputs of the request bridge.                                           *)
(***************************************************************************)
\* props.srcUrl / msg.src / payload.src
SrcUrls == { <<"x", "/", "a", ".", "p">>, <<"x", "/", "b", "?", "q">> }
\* msg.src of a 'picked-image' message, payload.src of 'send-allusion-image'
PickedSrc == <<"x", "/", "c">>
ExtSrc == <<"d", ".", "p">>
\* tab.title, msg.alt || msg.pageTitle, sender.tab?.title || alt
TabTitle == <<"t">>
\* props.pageUrl || '' , msg.pageUrl, payload.pageUrl
PageUrl == <<"x">>
\* blob.type of the fetched image
BlobTypes == { <<"i", "/", "p">> }
\* msg.tagNames of a 'setTags' message
SetTagsLists == { << <<"a">> >> }
\* payload.prompt of a 'send-allusion-image' message
ExtPrompts == { <<"B", ",", " ", "a">> }
\* names returned by GET /tags
BridgeTagLists == { << <<"a">>, <<"b">> >> }
\* the second argument the platform passes to a notifications.onClicked
\* listener: the event carries the notification id only
ClickedButtonIndex == { JsUndefined }

\* the importImage invocations made or still to be made by the events delivered
ImportsStarted ==
    Len(calls)
    + Cardinality({m \in 1..Len(msgs) :
                      msgs[m].pc = "get" /\ msgs[m].msg.type = "picked-image"})
    + Cardinality({k \in 1..Len(clicks) : clicks[k].pc = "get"})
    + Cardinality({e \in 1..Len(exts) : exts[e].pc = "tags"})

\* chrome.contextMenus.onClicked listener
ContextMenuClicked(srcUrl) ==
    /\ events < MaxEvents
    /\ ImportsStarted < MaxCalls
    /\ events' = events + 1
    /\ calls' = Append(calls, NewCall(filenameFromUrl(srcUrl, TabTitle), srcUrl,
                                      PageUrl, <<>>))
    /\ UNCHANGED <<storage, badge, errCount, notifications, msgs, clicks, exts>>

\* chrome.runtime.onMessage listener: handleMessage(msg) runs up to its await of
\* chrome.storage.local.get, which reads the item as stored at this point
MessageReceived(msg) ==
    /\ events < MaxEvents
    /\ msg.type = "picked-image" => ImportsStarted < MaxCalls
    /\ events' = events + 1
    /\ msgs' = Append(msgs, [msg |-> msg, pc |-> "get", got |-> storage,
                             response |-> JsUndefined])
    /\ UNCHANGED <<storage, badge, errCount, notifications, calls, clicks, exts>>

Messages ==
    [type : {"setTags"}, tagNames : SetTagsLists]
    \cup [type : {"getLastSubmittedItem"}]
    \cup [type : {"picked-image"}, src : {PickedSrc}]

\* handleMessage resumes with the item read from storage
MessageResumed(m) ==
    /\ msgs[m].pc = "get"
    /\ LET msg == msgs[m].msg
           got == msgs[m].got
       IN  IF msg.type = "setTags" /\ got # NoItem
           THEN LET item == SetField(got[1], "tagNames", msg.tagNames)
                IN  /\ storage' = Stored(item)
                    /\ msgs' = [msgs EXCEPT ![m].pc = "post", ![m].got = Stored(item)]
                    /\ UNCHANGED calls
           ELSE IF msg.type = "getLastSubmittedItem"
           THEN /\ msgs' = [msgs EXCEPT ![m].pc = "done",
                                        ![m].response = IF got = NoItem THEN JsUndefined
                                                        ELSE JsObject(got[1])]
                /\ UNCHANGED <<storage, calls>>
           ELSE IF msg.type = "picked-image"
           THEN /\ calls' = Append(calls, NewCall(filenameFromUrl(msg.src, TabTitle),
                                                  msg.src, PageUrl, <<>>))
                /\ msgs' = [msgs EXCEPT ![m].pc = "done", ![m].response = JsBoolean(TRUE)]
                /\ UNCHANGED storage
           ELSE \* no branch taken: the async function returns undefined
                /\ msgs' = [msgs EXCEPT ![m].pc = "done", ![m].response = JsUndefined]
                /\ UNCHANGED <<storage, calls>>
    /\ UNCHANGED <<badge, errCount, notifications, clicks, exts, events>>

\* the POST to /set-tags resolves: return true
SetTagsPosted(m) ==
    /\ msgs[m].pc = "post"
    /\ msgs' = [msgs EXCEPT ![m].pc = "done", ![m].response = JsBoolean(TRUE)]
    /\ UNCHANGED <<storage, badge, errCount, notifications, calls, clicks, exts, events>>

\* the POST to /set-tags rejects: return false
SetTagsPostRejected(m) ==
    /\ msgs[m].pc = "post"
    /\ msgs' = [msgs EXCEPT ![m].pc = "done", ![m].response = JsBoolean(FALSE)]
    /\ UNCHANGED <<storage, badge, errCount, notifications, calls, clicks, exts, events>>

\* chrome.notifications.onClicked listener up to its await of storage.get
NotificationClicked(id, buttonIndex) ==
    /\ events < MaxEvents
    /\ ImportsStarted < MaxCalls
    /\ events' = events + 1
    /\ id \in notifications
    /\ clicks' = Append(clicks, [id |-> id, buttonIndex |-> buttonIndex, pc |-> "get",
                                 got |-> storage, retry |-> 0])
    /\ UNCHANGED <<storage, badge, errCount, notifications, calls, msgs, exts>>

\* the listener resumes: retry when the id, the button index and the item allow it
ClickResumed(k) ==
    /\ clicks[k].pc = "get"
    /\ IF /\ clicks[k].id[1] = "import-error-"
          /\ clicks[k].buttonIndex = JsNumber(0)
          /\ clicks[k].got # NoItem
       THEN /\ calls' = Append(calls, NewCall(GetField(clicks[k].got[1], "filename"),
                                              GetField(clicks[k].got[1], "url"),
                                              Undefined, <<>>))
            /\ clicks' = [clicks EXCEPT ![k].pc = "done", ![k].retry = Len(calls) + 1]
       ELSE /\ clicks' = [clicks EXCEPT ![k].pc = "done"]
            /\ UNCHANGED calls
    /\ UNCHANGED <<storage, badge, errCount, notifications, msgs, exts, events>>

\* chrome.runtime.onMessageExternal listener for 'send-allusion-image', up to its
\* await of fetch(`${apiUrl}/tags`)
ExternalMessageReceived(src, prompt) ==
    /\ events < MaxEvents
    /\ ImportsStarted < MaxCalls
    /\ events' = events + 1
    /\ exts' = Append(exts, [src |-> src, prompt |-> prompt,
                             filename |-> filenameFromUrl(src, TabTitle),
                             pc |-> "tags", call |-> 0, responded |-> FALSE])
    /\ UNCHANGED <<storage, badge, errCount, notifications, calls, msgs, clicks>>

\* GET /tags answers with an array of tags: parse the prompt, import, respond
TagsFetched(e, existingTags) ==
    /\ exts[e].pc = "tags"
    /\ calls' = Append(calls, NewCall(exts[e].filename, exts[e].src, PageUrl,
                                      promptTags(exts[e].prompt, existingTags)))
    /\ exts' = [exts EXCEPT ![e].pc = "done", ![e].call = Len(calls) + 1,
                            ![e].responded = TRUE]
    /\ UNCHANGED <<storage, badge, errCount, notifications, msgs, clicks, events>>

\* GET /tags is unreachable: fetch rejects, nothing catches it, the listener ends
TagsUnreachable(e) ==
    /\ exts[e].pc = "tags"
    /\ exts' = [exts EXCEPT ![e].pc = "rejected"]
    /\ UNCHANGED <<storage, badge, errCount, notifications, calls, msgs, clicks, events>>

\* GET /tags answers with something that is no JSON array: response.json() rejects
\* or tags.map throws, nothing catches it, the listener ends
TagsMalformed(e) ==
    /\ exts[e].pc = "tags"
    /\ exts' = [exts EXCEPT ![e].pc = "threw"]
    /\ UNCHANGED <<storage, badge, errCount, notifications, calls, msgs, clicks, events>>

\* the main process while the clipper is studied on its own
MainIdle ==
    /\ appState = "starting"
    /\ isMac = FALSE
    /\ mainWindow = 0
    /\ windows = {}
    /\ nWindows = 0
    /\ previewWindow = "null"
    /\ tray = "null"
    /\ clipServer = FALSE
    /\ runInBackground = FALSE
    /\ importQueue = <<>>
    /\ delivered = {}
    /\ nItems = 0
    /\ drains = <<>>
    /\ hasCheckedForUpdateOnStartup = FALSE
    /\ checks = <<>>

\* the filename derivation while another part is studied on its own
NameIdle ==
    /\ srcUrlIn = <<>>
    /\ nUrlTokens = 0
    /\ fallbackIn = <<>>
    /\ namePc = "url"
    /\ filenameOut = <<>>
    /\ blobTypeIn = <<>>
    /\ finalOut = <<>>

\* the parser while the request bridge is studied on its own
ParserIdle ==
    /\ promptIn = <<>>
    /\ nTokens = 0
    /\ tagsFetched = <<>>
    /\ tagsOut = <<>>
    /\ parsed = FALSE

Init ==
    /\ storage = NoItem
    /\ badge = "none"
    /\ errCount = 0
    /\ notifications = {}
    /\ calls = <<>>
    /\ msgs = <<>>
    /\ clicks = <<>>
    /\ exts = <<>>
    /\ events = 0
    /\ ParserIdle
    /\ NameIdle
    /\ MainIdle

Next ==
    \/ \E srcUrl \in SrcUrls : ContextMenuClicked(srcUrl) /\ UNCHANGED <<parserVars, otherVars>>
    \/ \E msg \in Messages : MessageReceived(msg) /\ UNCHANGED <<parserVars, otherVars>>
    \/ \E m \in 1..Len(msgs) : MessageResumed(m) /\ UNCHANGED <<parserVars, otherVars>>
    \/ \E m \in 1..Len(msgs) : SetTagsPosted(m) /\ UNCHANGED <<parserVars, otherVars>>
    \/ \E m \in 1..Len(msgs) : SetTagsPostRejected(m) /\ UNCHANGED <<parserVars, otherVars>>
    \/ \E id \in notifications, buttonIndex \in ClickedButtonIndex :
          NotificationClicked(id, buttonIndex) /\ UNCHANGED <<parserVars, otherVars>>
    \/ \E k \in 1..Len(clicks) : ClickResumed(k) /\ UNCHANGED <<parserVars, otherVars>>
    \/ \E src \in {ExtSrc}, prompt \in ExtPrompts :
          ExternalMessageReceived(src, prompt) /\ UNCHANGED <<parserVars, otherVars>>
    \/ \E e \in 1..Len(exts), existingTags \in BridgeTagLists :
          TagsFetched(e, existingTags) /\ UNCHANGED <<parserVars, otherVars>>
    \/ \E e \in 1..Len(exts) : TagsUnreachable(e) /\ UNCHANGED <<parserVars, otherVars>>
    \/ \E e \in 1..Len(exts) : TagsMalformed(e) /\ UNCHANGED <<parserVars, otherVars>>
    \/ \E c \in CallIds : ImageFetched(c) /\ UNCHANGED <<parserVars, otherVars>>
    \/ \E c \in CallIds : ImageFetchRejected(c) /\ UNCHANGED <<parserVars, otherVars>>
    \/ \E c \in CallIds, blobType \in BlobTypes : BlobRead(c, blobType) /\ UNCHANGED <<parserVars, otherVars>>
    \/ \E c \in CallIds : BlobRejected(c) /\ UNCHANGED <<parserVars, otherVars>>
    \/ \E c \in CallIds : ReaderLoaded(c) /\ UNCHANGED <<parserVars, otherVars>>
    \/ \E c \in CallIds : ReaderErrored(c) /\ UNCHANGED <<parserVars, otherVars>>
    \/ \E c \in CallIds : ImportPosted(c) /\ UNCHANGED <<parserVars, otherVars>>
    \/ \E c \in CallIds : ImportPostRejected(c) /\ UNCHANGED <<parserVars, otherVars>>

Spec == Init /\ [][Next]_vars

(***************************************************************************)
(* Properties of the request bridge.                                       *)
(***************************************************************************)
\* the item a call built before its POST (absent while the image is awaited)
Built(c) == HasField(calls[c].item, "filename")

\* obj.error === true
Failed(item) == HasField(item, "error") /\ item.error = TRUE

\* every invocation has reached an outcome or can never reach one
Settled(c) == calls[c].pc \in {"ok", "failed"}

\* C1: when the POST of an invocation is rejected, the step that ends the
\* invocation leaves that invocation's item in storage with error = true,
\* creates exactly one notification whose id no earlier notification has,
\* sets the badge red, and starts no import; imports start only in steps that
\* handle a browser event.
C1_PostFailure ==
    [][ /\ \A c \in CallIds :
             (calls[c].pc = "post" /\ calls'[c].pc = "failed") =>
                /\ storage' = Stored(SetField(calls[c].item, "error", TRUE))
                /\ Failed(storage'[1])
                /\ \E id \in notifications' :
                      /\ id \notin notifications
                      /\ notifications' = notifications \cup {id}
                /\ badge' = "red"
                /\ Len(calls') = Len(calls)
                /\ \A d \in CallIds : d # c => calls'[d] = calls[d]
        /\ Len(calls') > Len(calls) =>
              \/ events' = events + 1
              \/ \E m \in 1..Len(msgs) : msgs[m].pc = "get" /\ msgs'[m].pc = "done"
              \/ \E k \in 1..Len(clicks) : clicks[k].pc = "get" /\ clicks'[k].pc = "done"
              \/ \E e \in 1..Len(exts) : exts[e].pc = "tags" /\ exts'[e].pc = "done"
      ]_vars

\* two invocations have ended with a rejected POST, each with its notification
C1_Witness ==
    /\ \E c, d \in CallIds :
          /\ c # d
          /\ calls[c].pc = "failed" /\ Built(c)
          /\ calls[d].pc = "failed" /\ Built(d)
    /\ Cardinality(notifications) = 2
    /\ badge = "red"

\* C2: no invocation of importImage is left without an outcome: a failure of the
\* image fetch or of the blob read also ends the invocation (red badge,
\* notification).  Violated: the rejection is raised inside the async executor
\* of imageAsBase64 and the invocation stays pending.
C2_NoSilentFailure ==
    \A c \in CallIds : calls[c].pc # "pending"

\* C3: a 'send-allusion-image' message whose tags request failed still invokes
\* importImage, with an empty tag list, and answers the sender.  Violated: the
\* listener ends with the rejection.
C3_TagsFailureStillImports ==
    \A e \in 1..Len(exts) :
        exts[e].pc \in {"rejected", "threw"} =>
            /\ exts[e].responded
            /\ exts[e].call \in CallIds
            /\ calls[exts[e].call].tagNames = <<>>

\* C4: a handled click on a failure notification has invoked importImage with
\* the filename and url of the persisted item.  Violated: the listener requires
\* buttonIndex === 0 and the event carries no button index.
C4_ClickRetries ==
    \A k \in 1..Len(clicks) :
        clicks[k].pc = "done" =>
            /\ clicks[k].retry \in CallIds
            /\ clicks[k].got # NoItem
            /\ calls[clicks[k].retry].filename = GetField(clicks[k].got[1], "filename")
            /\ calls[clicks[k].retry].url = GetField(clicks[k].got[1], "url")

\* the invocations that submitted the item now in storage
Submitters ==
    {c \in CallIds : /\ Built(c)
                     /\ HasField(storage[1], "filename")
                     /\ calls[c].item.filename = storage[1].filename
                     /\ calls[c].item.url = storage[1].url}

\* C5: with no import in flight, the persisted item is failed exactly when its
\* submission did not complete successfully, and the badge is red exactly when
\* the item is failed and blue exactly when it is not (stated for behaviours
\* made of import attempts alone, no message handled).  Violated by overlapping
\* imports with different outcomes.
C5_FailedMirrorsOutcome ==
    ((\A c \in CallIds : Settled(c)) /\ storage # NoItem /\ msgs = <<>>) =>
        /\ Submitters = {} => Failed(storage[1])
        /\ \A c \in Submitters :
              Cardinality(Submitters) = 1 => (Failed(storage[1]) <=> calls[c].pc = "failed")
        /\ badge = "red" <=> Failed(storage[1])
        /\ badge = "blue" <=> ~Failed(storage[1])

\* C6: once a newer invocation b has written its item, no step of an older
\* invocation a changes the storage.  Violated: the older invocation's catch
\* block (or its late first write) replaces the newer item.
C6_NewestItemKept ==
    [][ \A a, b \in CallIds :
           (/\ a < b
            /\ Built(b)
            /\ calls'[a] # calls[a])
           => storage' = storage
      ]_vars

\* C7: a handled 'setTags' message has returned a boolean, and when an item was
\* persisted the item's tagNames are the given list.  Violated: with no item
\* persisted handleMessage takes no branch and returns undefined.
C7_SetTagsReturnsBoolean ==
    \A m \in 1..Len(msgs) :
        (msgs[m].msg.type = "setTags" /\ msgs[m].pc = "done") =>
            /\ msgs[m].response.type = "boolean"
            /\ msgs[m].got # NoItem
            /\ msgs[m].got[1].tagNames = msgs[m].msg.tagNames

\* C14: a handled click on a failure notification, taken when the persisted
\* item was a submitted one, has re-invoked importImage with that item's
\* filename and url and with no tags, and the item the retry builds and posts
\* has the persisted filename (no second extension) and an empty tagNames list.
\* Violated: the retry is never made (the listener of C4 requires
\* buttonIndex === 0).
C14_RetryCarriesPersistedItem ==
    \A k \in 1..Len(clicks) :
        (/\ clicks[k].pc = "done"
         /\ clicks[k].id[1] = "import-error-"
         /\ clicks[k].got # NoItem
         /\ HasField(clicks[k].got[1], "filename"))
        => /\ clicks[k].retry \in CallIds
           /\ LET retry == calls[clicks[k].retry]
                  item  == clicks[k].got[1]
              IN  /\ retry.filename = item.filename
                  /\ retry.url = item.url
                  /\ retry.tagNames = <<>>
                  /\ HasField(retry.item, "filename") =>
                        /\ retry.item.filename = item.filename
                        /\ retry.item.url = item.url
                        /\ retry.item.tagNames = <<>>

(***************************************************************************)
(* Specification of the parser: a web page builds a prompt, sends it, and  *)
(* the listener parses it against the tags the endpoint returns.           *)
(***************************************************************************)
ExamplePrompt ==
    <<"c", "a", "t", ",", " ", "(", "c", "u", "t", "e", ",", " ",
      "f", "l", "u", "f", "f", "y", ":", "1", ".", "2", ")", "\n",
      "#", "c", "o", "m", "m", "e", "n", "t", "\n">>
    \o Marker \o <<"e", "x", "t", "r", "a">>

ExampleTags ==
    << <<"c", "a", "t">>, <<"c", "u", "t", "e">>,
       <<"f", "l", "u", "f", "f", "y">>, <<"e", "x", "t", "r", "a">> >>

EscapedSeed == <<"a", " ", "\\", "(", "b", "\\", ")">>

\* prompts a page starts from
SeedPrompts ==
    { <<>>,
      ExamplePrompt,
      <<"B", " ", "a", ",", " ", "a", ",", "b", " ">>,
      EscapedSeed }

\* what a page appends to its prompt
Tokens ==
    { <<"a">>, <<"b">>, <<" ">>, <<",">>, <<",", " ">>,
      <<"(">>, <<"\\", "(">>, <<":", "1">>, <<"#">>, <<"\n">> }

\* responses of GET /tags, as lists of names
ExistingTagLists ==
    { ExampleTags \o << <<"c", "o", "m", "m", "e", "n", "t">> >>,
      << <<"a">>, <<"A">>, <<"b">>, <<"a", " ", "b">>, <<"B", " ", "a">>,
         <<"A", " ", "b">> >>,
      << <<"B">>, <<"b", " ", "A">>, <<"a", " ", "(", "b", ")">>, <<"A">>,
         <<"a", " ", "a", ",", "b">> >> }

\* the request bridge while the parser is studied on its own
BridgeIdle ==
    /\ storage = NoItem
    /\ badge = "none"
    /\ errCount = 0
    /\ notifications = {}
    /\ calls = <<>>
    /\ msgs = <<>>
    /\ clicks = <<>>
    /\ exts = <<>>
    /\ events = 0

ParserInit ==
    /\ promptIn \in SeedPrompts
    /\ nTokens = 0
    /\ tagsFetched = <<>>
    /\ tagsOut = <<>>
    /\ parsed = FALSE
    /\ BridgeIdle
    /\ NameIdle
    /\ MainIdle

\* the page extends the prompt it is about to send
AppendToken(t) ==
    /\ ~parsed
    /\ nTokens < MaxTokens
    /\ promptIn' = promptIn \o t
    /\ nTokens' = nTokens + 1
    /\ UNCHANGED <<tagsFetched, tagsOut, parsed, bridgeVars, otherVars>>

\* the listener receives the payload, fetches the tags and computes promptTags
ParsePrompt(existing) ==
    /\ ~parsed
    /\ parsed' = TRUE
    /\ tagsFetched' = existing
    /\ tagsOut' = promptTags(promptIn, existing)
    /\ UNCHANGED <<promptIn, nTokens, bridgeVars, otherVars>>

ParserNext ==
    \/ \E t \in Tokens : AppendToken(t)
    \/ \E existing \in ExistingTagLists : ParsePrompt(existing)

SpecParser == ParserInit /\ [][ParserNext]_vars

Parsed == parsed

Range(f) == {f[i] : i \in DOMAIN f}

\* C8: every output tag is a name of the existing-tag set, in its canonical
\* casing, whose lower-case form is one of the candidates of the prompt.
C8_Soundness ==
    Parsed =>
        LET cands == Range(candidates(filteredPrompt(promptIn)))
        IN  \A i \in 1..Len(tagsOut) :
                /\ tagsOut[i] \in Range(tagsFetched)
                /\ ToLowerCase(tagsOut[i]) \in cands

\* a prompt with a candidate that no existing tag matches was parsed to some tags
C8_Witness ==
    /\ Parsed
    /\ Len(tagsOut) >= 1
    /\ \E c \in Range(promptCandidates(promptIn)) :
          \A i \in 1..Len(tagsFetched) : ToLowerCase(tagsFetched[i]) # c

\* C9: no two entries of the output are equal under case-insensitive comparison.
C9_Uniqueness ==
    Parsed =>
        \A i, j \in 1..Len(tagsOut) :
            i # j => ToLowerCase(tagsOut[i]) # ToLowerCase(tagsOut[j])

\* the same candidate occurs twice in the prompt, the existing tags hold two
\* names that differ only in case, and the candidate was output
C9_Witness ==
    /\ Parsed
    /\ \E i, j \in 1..Len(tagsFetched) :
          /\ i # j
          /\ ToLowerCase(tagsFetched[i]) = ToLowerCase(tagsFetched[j])
          /\ tagsFetched[i] \in Range(tagsOut)
          /\ LET cs == candidates(filteredPrompt(promptIn))
             IN  Cardinality({k \in 1..Len(cs) : cs[k] = ToLowerCase(tagsFetched[i])}) >= 2

\* the fragments of a prompt, line by line and left to right
allParts(prompt) ==
    LET lines == promptLines(prompt)
    IN  Flatten([i \in 1..Len(lines) |-> parts(cleanedLine(lines[i]))])

\* the candidates one fragment contributes
partCandidates(part) ==
    Range(candidates(JoinStr(processPart(part), <<",", " ">>)))

\* the first of the fragments (given by their candidates) that matches tag
FirstPart(partCands, tag) ==
    Min({k \in 1..Len(partCands) : ToLowerCase(tag) \in partCands[k]})

\* C10: the output is order-preserving: a tag output before another has its
\* first matching candidate in an earlier (or the same) fragment of the prompt,
\* and strictly earlier in the candidate sequence; the example prompt yields
\* cat, cute, fluffy, extra, also when an existing tag is named 'comment'.
C10_OrderPreserving ==
    Parsed =>
        LET ps        == allParts(promptIn)
            partCands == [k \in 1..Len(ps) |-> partCandidates(ps[k])]
            cands     == candidates(filteredPrompt(promptIn))
            part      == [i \in 1..Len(tagsOut) |-> FirstPart(partCands, tagsOut[i])]
            first     == [i \in 1..Len(tagsOut) |-> FirstIndex(cands, ToLowerCase(tagsOut[i]))]
        IN  /\ \A i, j \in 1..Len(tagsOut) :
                  i < j => (part[i] <= part[j] /\ first[i] < first[j])
            /\ (promptIn = ExamplePrompt /\ SubSeq(tagsFetched, 1, 4) = ExampleTags)
                  => tagsOut = ExampleTags

\* the example prompt was parsed against tags that include 'comment', and some
\* parsed prompt has two tags in the opposite order of the existing-tag list
C10_WitnessExample ==
    /\ Parsed
    /\ promptIn = ExamplePrompt
    /\ Len(tagsFetched) = 5
    /\ Len(tagsOut) = 4

C10_Witness ==
    /\ Parsed
    /\ \E i, j \in 1..Len(tagsOut) :
          /\ i < j
          /\ FirstIndex(tagsFetched, tagsOut[i]) > FirstIndex(tagsFetched, tagsOut[j])
          /\ LET ps        == allParts(promptIn)
                 partCands == [k \in 1..Len(ps) |-> partCandidates(ps[k])]
             IN  FirstPart(partCands, tagsOut[i]) < FirstPart(partCands, tagsOut[j])

\* every ordering of words, as the set of the rearranged sequences
Orderings(words) ==
    {[i \in 1..Len(words) |-> words[sigma[i]]] : sigma \in Permutations(1..Len(words))}

\* the words of a fragment written as two or more words separated by single spaces
WordsOf(part) == SplitStr(part, <<" ">>)
IsPhrase(part) ==
    /\ Len(WordsOf(part)) >= 2
    /\ \A i \in 1..Len(WordsOf(part)) : WordsOf(part)[i] # <<>>

\* the positions of the existing tags that equal phrase case-insensitively
NamesOf(phrase) ==
    {i \in 1..Len(tagsFetched) : ToLowerCase(tagsFetched[i]) = ToLowerCase(phrase)}

\* C11 (as stated): for every fragment of two or more words separated by single
\* spaces, permute returns every ordering of the words, and every existing name
\* that case-insensitively equals an ordering joined by single spaces is in the
\* output.  Violated by a second existing name that differs from an earlier one
\* only in case, and by a word that holds a comma.
C11_AnyOrderingMatches ==
    Parsed =>
        \A part \in Range(allParts(promptIn)) :
            IsPhrase(part) =>
                /\ Range(permute(WordsOf(part))) = Orderings(WordsOf(part))
                /\ \A perm \in Orderings(WordsOf(part)) :
                      \A i \in NamesOf(JoinStr(perm, <<" ">>)) :
                          tagsFetched[i] \in Range(tagsOut)

\* C11 (amended): for every fragment of two or more words separated by single
\* spaces, the words holding neither a comma nor white space, permute returns
\* every ordering of the words, and for every ordering the first existing name
\* that case-insensitively equals it is in the output.
C11_FirstNameOfOrderingMatches ==
    Parsed =>
        \A part \in Range(allParts(promptIn)) :
            (/\ IsPhrase(part)
             /\ \A k \in 1..Len(part) : part[k] \notin ({","} \cup WhiteSpace) \ {" "})
            => /\ Range(permute(WordsOf(part))) = Orderings(WordsOf(part))
               /\ \A perm \in Orderings(WordsOf(part)) :
                     NamesOf(JoinStr(perm, <<" ">>)) # {} =>
                        tagsFetched[Min(NamesOf(JoinStr(perm, <<" ">>)))] \in Range(tagsOut)

\* a fragment of two words was parsed, and the output holds an existing name that
\* equals the words in the other order, not in the order the prompt writes them
C11_Witness ==
    /\ Parsed
    /\ \E part \in Range(allParts(promptIn)) :
          /\ IsPhrase(part)
          /\ NamesOf(part) = {}
          /\ \E perm \in Orderings(WordsOf(part)) :
                /\ NamesOf(JoinStr(perm, <<" ">>)) # {}
                /\ tagsFetched[Min(NamesOf(JoinStr(perm, <<" ">>)))] \in Range(tagsOut)

\* a line with its unescaped parentheses deleted and each escaped parenthesis
\* replaced by the parenthesis alone
Unescaped(line) ==
    LET escaped(i) == line[i] \in {"(", ")"} /\ i > 1 /\ line[i - 1] = "\\"
        escapes(i) == line[i] = "\\" /\ i < Len(line) /\ line[i + 1] \in {"(", ")"}
        keep(i)    == IF line[i] \in {"(", ")"} THEN escaped(i) ELSE ~escapes(i)
        tagged     == [i \in 1..Len(line) |-> <<line[i], keep(i)>>]
        isKept(p)  == p[2]
        kept       == SelectSeq(tagged, isKept)
    IN  [i \in 1..Len(kept) |-> kept[i][1]]

\* the fragments between ', ' of the cleaned lines that hold a parenthesis
ParenFragments(prompt) ==
    LET lines == promptLines(prompt)
        frags == Flatten([i \in 1..Len(lines) |->
                             SplitStr(cleanedLine(lines[i]), <<",", " ">>)])
        hasParen(f) == \E k \in 1..Len(f) : f[k] \in {"(", ")"}
    IN  SelectSeq(frags, hasParen)

\* C15 (as stated): the parenthesis step deletes the unescaped parentheses and
\* keeps the escaped ones as literal parentheses, and a fragment that holds
\* such parentheses reaches the matching step as one candidate, so that the
\* first existing tag of that name is in the output.  Violated: the fragment
\* 'a (b)' is split again at ' (' and ')'.
C15_EscapedParensKept ==
    Parsed =>
        /\ \A line \in Range(promptLines(promptIn)) :
              restoredLine(line) = Unescaped(line)
        /\ \A frag \in Range(ParenFragments(promptIn)) :
              /\ ToLowerCase(Trim(frag)) \in Range(candidates(filteredPrompt(promptIn)))
              /\ NamesOf(Trim(frag)) # {} =>
                    tagsFetched[Min(NamesOf(Trim(frag)))] \in Range(tagsOut)

\* C15 (amended): the parenthesis step deletes the unescaped parentheses and
\* keeps the escaped ones as literal parentheses, but no candidate and no output
\* tag holds a ')': a fragment is cut at every ')' and every ' (' that is left,
\* and 'a \(b\)' reaches the matching step as the two candidates 'a' and 'b'.
C15_EscapedParensSplit ==
    Parsed =>
        /\ \A line \in Range(promptLines(promptIn)) :
              restoredLine(line) = Unescaped(line)
        /\ \A c \in Range(candidates(filteredPrompt(promptIn))) :
              \A k \in 1..Len(c) : c[k] # ")"
        /\ \A i \in 1..Len(tagsOut) : \A k \in 1..Len(tagsOut[i]) : tagsOut[i][k] # ")"
        /\ promptIn = EscapedSeed =>
              candidates(filteredPrompt(promptIn)) = << <<"a">>, <<"b">> >>

\* 'a \(b\)' was parsed against tags that hold 'a (b)', and the output is the
\* tags of the two words
C15_Witness ==
    /\ Parsed
    /\ promptIn = EscapedSeed
    /\ <<"a", " ", "(", "b", ")">> \in Range(tagsFetched)
    /\ tagsOut = << <<"A">>, <<"B">> >>

\* a prompt with an unescaped and an escaped parenthesis in one line was parsed
C15_WitnessMixed ==
    /\ Parsed
    /\ \E line \in Range(promptLines(promptIn)) :
          /\ Len(restoredLine(line)) < Len(line) - 2
          /\ \E k \in 1..Len(restoredLine(line)) : restoredLine(line)[k] = ")"

(***************************************************************************)
(* Specification of the filename derivation: a page offers an image url,   *)
(* filenameFromUrl names it and importImage appends the extension of the   *)
(* fetched blob.                                                           *)
(***************************************************************************)
ExampleUrl ==
    <<"h", "t", "t", "p", "s", ":", "/", "/", "x", ".", "c", "o", "m", "/",
      "a", "/", "p", "h", "o", "t", "o", ".", "j", "p", "g", "?", "x", "=",
      "1">>
ExampleDataUrl ==
    <<"d", "a", "t", "a", ":", "i", "m", "a", "g", "e", "/", "p", "n", "g",
      ";", "b", "a", "s", "e", "6", "4", ",", "A", "A", "A", "A">>
ExampleFallback == <<"f", "a", "l", "l", "b", "a", "c", "k">>

\* urls a page starts from: the root of a site, an image below it, the examples
SeedUrls ==
    { <<"s", ":", "/", "/", "h", "/">>,
      <<"s", ":", "/", "/", "h", "/", "a", ".", "p">>,
      ExampleUrl, ExampleDataUrl }

\* what a page appends to its url
UrlTokens == { <<"/">>, <<".">>, <<"?">>, <<"#">>, <<"a">>, <<"p">> }
MaxUrlTokens == 3

\* tab.title, msg.alt || msg.pageTitle
Fallbacks == { ExampleFallback, <<"a", "p">> }

\* blob.type of the fetched image; '' when the type is unknown
NameBlobTypes ==
    { <<"i", "/", "p">>, <<"i", "m", "a", "g", "e", "/", "j", "p", "e", "g">>, <<>> }

NameInit ==
    /\ srcUrlIn \in SeedUrls
    /\ nUrlTokens = 0
    /\ fallbackIn \in Fallbacks
    /\ namePc = "url"
    /\ filenameOut = <<>>
    /\ blobTypeIn = <<>>
    /\ finalOut = <<>>
    /\ BridgeIdle
    /\ ParserIdle
    /\ MainIdle

\* the page extends the url of its image
AppendUrlToken(t) ==
    /\ namePc = "url"
    /\ nUrlTokens < MaxUrlTokens
    /\ srcUrlIn' = srcUrlIn \o t
    /\ nUrlTokens' = nUrlTokens + 1
    /\ UNCHANGED <<fallbackIn, namePc, filenameOut, blobTypeIn, finalOut>>

\* a listener calls filenameFromUrl(srcUrl, fallback)
NameFromUrl ==
    /\ namePc = "url"
    /\ namePc' = "named"
    /\ filenameOut' = filenameFromUrl(srcUrlIn, fallbackIn)
    /\ UNCHANGED <<srcUrlIn, nUrlTokens, fallbackIn, blobTypeIn, finalOut>>

\* importImage: the image is fetched and filenameWithExtension is computed
AppendExtension(blobType) ==
    /\ namePc = "named"
    /\ namePc' = "final"
    /\ blobTypeIn' = blobType
    /\ finalOut' = filenameWithExtension(filenameOut, blobType)
    /\ UNCHANGED <<srcUrlIn, nUrlTokens, fallbackIn, filenameOut>>

NameNext ==
    \/ \E t \in UrlTokens : AppendUrlToken(t) /\ UNCHANGED <<parserVars, bridgeVars, mainVars>>
    \/ NameFromUrl /\ UNCHANGED <<parserVars, bridgeVars, mainVars>>
    \/ \E blobType \in NameBlobTypes :
          AppendExtension(blobType) /\ UNCHANGED <<parserVars, bridgeVars, mainVars>>

SpecFilename == NameInit /\ [][NameNext]_vars

\* C12: filenameFromUrl returns the fallback for a data URL and when the last
\* segment of the URL's path (the part after the authority and before the query
\* string and the fragment) has no '.', and otherwise that segment up to its
\* first '.'; the example url gives 'photo', the example data url the fallback.
\* Violated: the url is split on '/' before the query string and the fragment
\* are cut off, and the authority counts as a segment.
C12_DependsOnPathOnly ==
    namePc # "url" =>
        LET cuts    == {k \in 1..Len(srcUrlIn) : srcUrlIn[k] \in {"?", "#"}}
            noQuery == IF cuts = {} THEN srcUrlIn ELSE SubSeq(srcUrlIn, 1, Min(cuts) - 1)
            auth    == IndexOf(noQuery, <<":", "/", "/">>)
            rest    == IF auth = 0 THEN noQuery ELSE From(noQuery, auth + 3)
            path    == IF IndexOf(rest, <<"/">>) = 0 THEN <<>>
                       ELSE From(rest, IndexOf(rest, <<"/">>))
            segment == IF path = <<>> THEN <<>> ELSE Last(SplitStr(path, <<"/">>))
            dot     == IndexOf(segment, <<".">>)
        IN  /\ filenameOut = IF StartsWith(srcUrlIn, <<"d", "a", "t", "a", ":">>) \/ dot = 0
                             THEN fallbackIn
                             ELSE SubSeq(segment, 1, dot - 1)
            /\ srcUrlIn = ExampleUrl => filenameOut = <<"p", "h", "o", "t", "o">>
            /\ srcUrlIn = ExampleDataUrl => filenameOut = fallbackIn

\* C13: for a blob type with a subtype, the final filename ends with '.' and
\* the subtype, it is the given filename or the given filename followed by '.'
\* and the subtype, and it is the given filename only if that already ended
\* with '.' and the subtype.  Violated: the code tests endsWith(subtype),
\* without the '.'.
C13_ExtensionAppended ==
    (namePc = "final" /\ extensionOf(blobTypeIn) # Undefined) =>
        LET suffix == <<".">> \o extensionOf(blobTypeIn)
        IN  /\ EndsWith(finalOut, suffix)
            /\ finalOut \in {filenameOut, filenameOut \o suffix}
            /\ finalOut = filenameOut => EndsWith(filenameOut, suffix)

(***************************************************************************)
(* Specification of the main process: window life cycle, tray, import     *)
(* queue of the clip server, update checks.                                *)
(***************************************************************************)
\* main windows created, items received and update checks made in one behaviour
MaxWindows == 2
MaxItems == 2
MaxChecks == 2

\* clipServer.isRunInBackgroundEnabled()
isRunInBackgroundEnabled == runInBackground

\* createTrayMenu(): the tray after the call, given the tray before it
createTrayMenu(t) == IF t = "null" THEN "alive" ELSE t

\* BrowserWindow.focus() returns nothing; mainWindow?.focus() is undefined
\* with and without a window
focus(w) == JsUndefined

\* createWindow() up to the registration of the onceInitialized handler
createWindow ==
    /\ nWindows' = nWindows + 1
    /\ mainWindow' = nWindows + 1
    /\ windows' = windows \cup {nWindows + 1}
    /\ clipServer' = TRUE
    /\ tray' = IF isMac \/ isRunInBackgroundEnabled THEN createTrayMenu(tray) ELSE tray
    /\ drains' = Append(drains, [win |-> nWindows + 1, pc |-> "waiting",
                                  importItems |-> <<>>])

\* initialize(): createWindow(); createPreviewWindow()
initialize ==
    /\ createWindow
    /\ previewWindow' = "alive"

\* mainWindow?.focus() ?? initialize()
focusOrInitialize ==
    IF focus(mainWindow) = JsUndefined
    THEN initialize
    ELSE UNCHANGED <<nWindows, mainWindow, windows, clipServer, tray, drains,
                     previewWindow>>

\* app.on('ready', initialize)
AppReady ==
    /\ appState = "starting"
    /\ appState' = "running"
    /\ initialize
    /\ UNCHANGED <<isMac, runInBackground, importQueue, delivered, nItems,
                   hasCheckedForUpdateOnStartup, checks>>

\* tray.on('click', ...)
TrayClicked ==
    /\ appState = "running"
    /\ tray = "alive"
    /\ nWindows < MaxWindows
    /\ focusOrInitialize
    /\ UNCHANGED <<appState, isMac, runInBackground, importQueue, delivered, nItems,
                   hasCheckedForUpdateOnStartup, checks>>

\* the 'Open' entry of the tray menu
TrayOpenClicked ==
    /\ appState = "running"
    /\ tray = "alive"
    /\ nWindows < MaxWindows
    /\ focusOrInitialize
    /\ UNCHANGED <<appState, isMac, runInBackground, importQueue, delivered, nItems,
                   hasCheckedForUpdateOnStartup, checks>>

\* app.on('activate', ...): the dock icon is clicked (macOS)
Activate ==
    /\ appState = "running"
    /\ isMac
    /\ nWindows < MaxWindows
    /\ IF mainWindow = 0
       THEN createWindow /\ UNCHANGED previewWindow
       ELSE UNCHANGED <<nWindows, mainWindow, windows, clipServer, tray, drains,
                        previewWindow>>
    /\ UNCHANGED <<appState, isMac, runInBackground, importQueue, delivered, nItems,
                   hasCheckedForUpdateOnStartup, checks>>

\* main window w is closed: its 'closed' handler runs, the preview window
\* closes with it, and 'window-all-closed' follows when no window is left
MainWindowClosed(w) ==
    /\ appState = "running"
    /\ w \in windows
    /\ windows' = windows \ {w}
    /\ mainWindow' = 0
    /\ previewWindow' = IF previewWindow = "alive" THEN "destroyed" ELSE previewWindow
    /\ appState' = IF /\ windows' = {}
                      /\ ~(clipServer /\ isRunInBackgroundEnabled)
                      /\ ~isMac
                   THEN "quit" ELSE appState
    /\ UNCHANGED <<isMac, nWindows, tray, clipServer, runInBackground, importQueue,
                   delivered, nItems, drains, hasCheckedForUpdateOnStartup, checks>>

\* MainMessenger.onSetRunningInBackground, sent by the renderer of a window
SetRunningInBackground(isRunInBackground) ==
    /\ appState = "running"
    /\ windows # {}
    /\ IF ~clipServer
       THEN UNCHANGED <<runInBackground, tray>>
       ELSE /\ runInBackground' = isRunInBackground
            /\ tray' = IF isRunInBackground THEN createTrayMenu(tray) ELSE "null"
    /\ UNCHANGED <<appState, isMac, mainWindow, windows, nWindows, previewWindow,
                   clipServer, importQueue, delivered, nItems, drains,
                   hasCheckedForUpdateOnStartup, checks>>

\* importExternalImage(item): the items delivered after the call
importExternalImage(items) ==
    IF mainWindow # 0 THEN delivered \cup items ELSE delivered

\* the clip server receives an image from the browser extension: it is handed
\* to importExternalImage and queued when that returns false
ImportRequested ==
    /\ appState = "running"
    /\ clipServer
    /\ nItems < MaxItems
    /\ nItems' = nItems + 1
    /\ delivered' = importExternalImage({nItems + 1})
    /\ importQueue' = IF mainWindow # 0 THEN importQueue
                      ELSE Append(importQueue, nItems + 1)
    /\ UNCHANGED <<appState, isMac, mainWindow, windows, nWindows, previewWindow, tray,
                   clipServer, runInBackground, drains, hasCheckedForUpdateOnStartup,
                   checks>>

\* the renderer of a window reports that it is initialized: the handler of
\* createWindow starts and awaits clipServer.getImportQueue()
Initialized(d) ==
    /\ appState = "running"
    /\ drains[d].pc = "waiting"
    /\ drains[d].win \in windows
    /\ drains' = [drains EXCEPT ![d].pc = IF ~clipServer \/ mainWindow = 0
                                          THEN "done" ELSE "reading"]
    /\ UNCHANGED <<appState, isMac, mainWindow, windows, nWindows, previewWindow, tray,
                   clipServer, runInBackground, importQueue, delivered, nItems,
                   hasCheckedForUpdateOnStartup, checks>>

\* the clip server reads its queue for getImportQueue()
QueueRead(d) ==
    /\ appState = "running"
    /\ drains[d].pc = "reading"
    /\ drains' = [drains EXCEPT ![d].pc = "read", ![d].importItems = importQueue]
    /\ UNCHANGED <<appState, isMac, mainWindow, windows, nWindows, previewWindow, tray,
                   clipServer, runInBackground, importQueue, delivered, nItems,
                   hasCheckedForUpdateOnStartup, checks>>

\* the handler resumes: importItems.map(importExternalImage), clearImportQueue()
DrainResumed(d) ==
    /\ appState = "running"
    /\ drains[d].pc = "read"
    /\ delivered' = importExternalImage({drains[d].importItems[i] :
                                            i \in 1..Len(drains[d].importItems)})
    /\ importQueue' = <<>>
    /\ drains' = [drains EXCEPT ![d].pc = "done"]
    /\ UNCHANGED <<appState, isMac, mainWindow, windows, nWindows, previewWindow, tray,
                   clipServer, runInBackground, nItems, hasCheckedForUpdateOnStartup,
                   checks>>

\* autoUpdater.checkForUpdates(); one check at a time is in progress
NewCheck(by) == [by |-> by, pc |-> "checking", result |-> "none", dialog |-> FALSE,
                 window |-> FALSE]

Checking == {c \in 1..Len(checks) : checks[c].pc = "checking"}

\* MainMessenger.onCheckForUpdates, sent by the renderer of a window
CheckForUpdates ==
    /\ appState = "running"
    /\ windows # {}
    /\ Checking = {}
    /\ Len(checks) < MaxChecks
    /\ checks' = Append(checks, NewCheck("user"))
    /\ UNCHANGED <<appState, isMac, mainWindow, windows, nWindows, previewWindow, tray,
                   clipServer, runInBackground, importQueue, delivered, nItems, drains,
                   hasCheckedForUpdateOnStartup>>

\* autoUpdater.on('update-not-available', ...)
UpdateNotAvailable(c) ==
    /\ appState # "quit"
    /\ c \in Checking
    /\ IF ~hasCheckedForUpdateOnStartup
       THEN /\ hasCheckedForUpdateOnStartup' = TRUE
            /\ checks' = [checks EXCEPT ![c].pc = "done",
                                          ![c].result = "update-not-available",
                                          ![c].window = mainWindow # 0]
       ELSE /\ checks' = [checks EXCEPT ![c].pc = "done",
                                          ![c].result = "update-not-available",
                                          ![c].window = mainWindow # 0,
                                          ![c].dialog = mainWindow # 0]
            /\ UNCHANGED hasCheckedForUpdateOnStartup
    /\ UNCHANGED <<appState, isMac, mainWindow, windows, nWindows, previewWindow, tray,
                   clipServer, runInBackground, importQueue, delivered, nItems, drains>>

\* autoUpdater.on('update-available', ...): the 'Found Updates' dialog
UpdateAvailable(c) ==
    /\ appState # "quit"
    /\ c \in Checking
    /\ checks' = [checks EXCEPT ![c].pc = "done", ![c].result = "update-available",
                                  ![c].window = mainWindow # 0]
    /\ UNCHANGED <<appState, isMac, mainWindow, windows, nWindows, previewWindow, tray,
                   clipServer, runInBackground, importQueue, delivered, nItems, drains,
                   hasCheckedForUpdateOnStartup>>

\* autoUpdater.on('error', ...): the error box
UpdateError(c) ==
    /\ appState # "quit"
    /\ c \in Checking
    /\ checks' = [checks EXCEPT ![c].pc = "done", ![c].result = "error",
                                  ![c].window = mainWindow # 0]
    /\ UNCHANGED <<appState, isMac, mainWindow, windows, nWindows, previewWindow, tray,
                   clipServer, runInBackground, importQueue, delivered, nItems, drains,
                   hasCheckedForUpdateOnStartup>>

\* the module is loaded: no window, no tray, no clip server, the start-up update
\* check under way; platform and run-in-background preference are given
MainInit ==
    /\ appState = "starting"
    /\ isMac \in BOOLEAN
    /\ mainWindow = 0
    /\ windows = {}
    /\ nWindows = 0
    /\ previewWindow = "null"
    /\ tray = "null"
    /\ clipServer = FALSE
    /\ runInBackground \in BOOLEAN
    /\ importQueue = <<>>
    /\ delivered = {}
    /\ nItems = 0
    /\ drains = <<>>
    /\ hasCheckedForUpdateOnStartup = FALSE
    /\ checks = <<NewCheck("startup")>>
    /\ BridgeIdle
    /\ ParserIdle
    /\ NameIdle

MainNext ==
    \/ AppReady /\ UNCHANGED <<parserVars, bridgeVars, nameVars>>
    \/ TrayClicked /\ UNCHANGED <<parserVars, bridgeVars, nameVars>>
    \/ TrayOpenClicked /\ UNCHANGED <<parserVars, bridgeVars, nameVars>>
    \/ Activate /\ UNCHANGED <<parserVars, bridgeVars, nameVars>>
    \/ \E w \in windows : MainWindowClosed(w) /\ UNCHANGED <<parserVars, bridgeVars, nameVars>>
    \/ \E b \in BOOLEAN :
          SetRunningInBackground(b) /\ UNCHANGED <<parserVars, bridgeVars, nameVars>>
    \/ ImportRequested /\ UNCHANGED <<parserVars, bridgeVars, nameVars>>
    \/ \E d \in 1..Len(drains) : Initialized(d) /\ UNCHANGED <<parserVars, bridgeVars, nameVars>>
    \/ \E d \in 1..Len(drains) : QueueRead(d) /\ UNCHANGED <<parserVars, bridgeVars, nameVars>>
    \/ \E d \in 1..Len(drains) : DrainResumed(d) /\ UNCHANGED <<parserVars, bridgeVars, nameVars>>
    \/ CheckForUpdates /\ UNCHANGED <<parserVars, bridgeVars, nameVars>>
    \/ \E c \in 1..Len(checks) : UpdateNotAvailable(c) /\ UNCHANGED <<parserVars, bridgeVars, nameVars>>
    \/ \E c \in 1..Len(checks) : UpdateAvailable(c) /\ UNCHANGED <<parserVars, bridgeVars, nameVars>>
    \/ \E c \in 1..Len(checks) : UpdateError(c) /\ UNCHANGED <<parserVars, bridgeVars, nameVars>>

SpecMain == MainInit /\ [][MainNext]_vars

\* C16: every item the clip server has received was delivered to a main window
\* or is in the import queue.  Violated: the handler clears the queue whatever
\* importExternalImage returned, also when the window was closed in between.
C16_QueuedItemsKept ==
    \A item \in 1..nItems :
        item \in delivered \/ \E i \in 1..Len(importQueue) : importQueue[i] = item

\* C17: every check the user started that ended in 'update-not-available' while
\* a main window existed has shown the dialog.  Violated: the first
\* 'update-not-available' is suppressed also when the start-up check ended
\* otherwise.
C17_UserCheckShowsDialog ==
    \A c \in 1..Len(checks) :
        (/\ checks[c].by = "user"
         /\ checks[c].result = "update-not-available"
         /\ checks[c].window)
        => checks[c].dialog

\* C18: once the first main window was created, the tray exists exactly when the
\* platform is Mac or run-in-background is enabled.  Violated on Mac: disabling
\* run-in-background destroys the tray.
C18_TrayMatchesSetting ==
    clipServer => (tray = "alive" <=> (isMac \/ isRunInBackgroundEnabled))

\* C19: at most one main window is open, and mainWindow refers to it.  Violated:
\* the tray handlers call initialize() also when a window is open.
C19_SingleMainWindow ==
    /\ Cardinality(windows) <= 1
    /\ windows # {} => mainWindow \in windows

=============================================================================
